---- MODULE Spec2Model ----
(***************************************************************************)
(* Model of ML_Logic_Complete.py: the recommend_jobs request handler and   *)
(* the functions it calls (extract_keywords_from_resume,                   *)
(* is_recent_job_posting, scrape_jobs).  Strings are sequences of          *)
(* one-character strings so that substring tests, lower-casing and         *)
(* splitting are computed as the code computes them.                       *)
(***************************************************************************)
EXTENDS Integers, Sequences, FiniteSets, TLC

(* ------------------------------ bounds -------------------------------- *)

\* most URLs one search generator yields in the model (the code asks for
\* num_results; the model explores shorter result sequences)
MaxYield == 2

(* ------------------------- program constants -------------------------- *)

num_results == 5

(* --------------------------- string helpers --------------------------- *)

UpperAlpha ==
  <<"A","B","C","D","E","F","G","H","I","J","K","L","M",
    "N","O","P","Q","R","S","T","U","V","W","X","Y","Z">>

LowerAlpha ==
  <<"a","b","c","d","e","f","g","h","i","j","k","l","m",
    "n","o","p","q","r","s","t","u","v","w","x","y","z">>

LowerChar(c) ==
  IF \E i \in 1..26 : UpperAlpha[i] = c
  THEN LowerAlpha[CHOOSE i \in 1..26 : UpperAlpha[i] = c]
  ELSE c

\* str.lower()
Lower(s) == [i \in 1..Len(s) |-> LowerChar(s[i])]

\* sub in s
Contains(sub, s) ==
  \E i \in 0..(Len(s) - Len(sub)) : SubSeq(s, i + 1, i + Len(sub)) = sub

\* len(s.split()): number of maximal runs of non-blank characters
NumTokens(s) ==
  Cardinality({i \in 1..Len(s) : s[i] # " " /\ (i = 1 \/ s[i-1] = " ")})

Range(s) == {s[i] : i \in 1..Len(s)}

\* every ordering a list built from a Python set can have
Orderings(S) ==
  {s \in [1..Cardinality(S) -> S] : \A i, j \in 1..Cardinality(S) : s[i] = s[j] => i = j}

Digits == <<"1","2","3","4","5","6","7","8","9">>

(* ------------------------ keyword extraction -------------------------- *)

tech_skills ==
  << <<"P","y","t","h","o","n">>,
     <<"J","a","v","a","S","c","r","i","p","t">>,
     <<"R","e","a","c","t">>,
     <<"A","n","g","u","l","a","r">>,
     <<"V","u","e">>,
     <<"N","o","d","e",".","j","s">>,
     <<"S","Q","L">>,
     <<"M","o","n","g","o","D","B">>,
     <<"A","W","S">>,
     <<"A","z","u","r","e">>,
     <<"D","o","c","k","e","r">>,
     <<"K","u","b","e","r","n","e","t","e","s">>,
     <<"M","a","c","h","i","n","e"," ","L","e","a","r","n","i","n","g">>,
     <<"D","a","t","a"," ","S","c","i","e","n","c","e">>,
     <<"A","P","I">>,
     <<"F","a","s","t","A","P","I">> >>

EntityLabels == {"ORG", "GPE", "PRODUCT", "JOB"}

fallback_keywords ==
  << <<"F","a","l","l","b","a","c","k">>, <<"N","L","P"," ","E","r","r","o","r">> >>

\* [ent.text for ent in doc.ents if ent.label_ in (...)], as a set
general_keywords(ents) == {e.text : e \in {x \in ents : x.label \in EntityLabels}}

\* the skills whose lower-cased name occurs in the lower-cased text
found_skills(resume_text) ==
  {tech_skills[i] : i \in {j \in 1..Len(tech_skills) :
                             Contains(Lower(tech_skills[j]), Lower(resume_text))}}

\* a filter on the length alone
KeepsLongOnly(kw) == Len(kw) > 3

\* the final filter of extract_keywords_from_resume
KeepKeyword(kw) == NumTokens(kw) > 1 \/ Len(kw) > 3

\* the set of keywords returned when the language model is loaded
extracted_keywords(resume_text, ents) ==
  {kw \in general_keywords(ents) \cup found_skills(resume_text) : KeepKeyword(kw)}

(* ------------------------- recency / relevance ------------------------- *)

\* the day loop stopping one short: range(1, 7)
is_recent_up_to_six(text) ==
  LET text_lower == Lower(text) IN
    \/ Contains(<<"j","u","s","t"," ","p","o","s","t","e","d">>, text_lower)
    \/ Contains(<<"n","e","w">>, text_lower)
    \/ Contains(<<"2","4"," ","h","o","u","r","s">>, text_lower)
    \/ \E i \in 1..6 :
         \/ Contains(<<Digits[i]>> \o <<" ","d","a","y">>, text_lower)
         \/ Contains(<<Digits[i], "d">>, text_lower)

is_recent_job_posting(text) ==
  LET text_lower == Lower(text) IN
    \/ Contains(<<"j","u","s","t"," ","p","o","s","t","e","d">>, text_lower)
    \/ Contains(<<"n","e","w">>, text_lower)
    \/ Contains(<<"2","4"," ","h","o","u","r","s">>, text_lower)
    \/ \E i \in 1..7 :
         \/ Contains(<<Digits[i]>> \o <<" ","d","a","y">>, text_lower)
         \/ Contains(<<Digits[i], "d">>, text_lower)

hiring_words ==
  << <<"a","p","p","l","y"," ","n","o","w">>,
     <<"v","a","c","a","n","c","y">>,
     <<"h","i","r","i","n","g">>,
     <<"j","o","b">>,
     <<"c","a","r","e","e","r","s">> >>

\* any(word in text for word in [...])
has_hiring_word(text) == \E i \in 1..Len(hiring_words) : Contains(hiring_words[i], text)

AcceptsEitherSignal(text) == has_hiring_word(text) \/ is_recent_job_posting(text)

\* the condition of the if at the heart of the URL loop
AcceptsPage(text) == has_hiring_word(text) /\ is_recent_job_posting(text)

(* ------------------------------ inputs --------------------------------- *)

ResumeTexts ==
  { <<>>,
    <<"s","q","l"," ","a","w","s">>,
    <<"P","Y","T","H","O","N"," ","a","p","i">>,
    <<"M","a","c","h","i","n","e"," ","l","e","a","r","n","i","n","g">>,
    <<"N"," ","Y"," ","s","q","l">>,
    <<"A","n","n"," ","a","t"," ","G","o","o","g","l","e"," ","N","Y"," ","p","y","t","h","o","n">> }

\* entities the recogniser may report (label, text)
EntityPool ==
  { [label |-> "ORG",    text |-> <<"G","o","o","g","l","e">>],
    [label |-> "GPE",    text |-> <<"N","Y">>],
    [label |-> "GPE",    text |-> <<"N"," ","Y">>],
    [label |-> "PERSON", text |-> <<"A","n","n">>] }

\* the recogniser reports spans of the document
EntitiesOf(resume_text) ==
  SUBSET {e \in EntityPool : Contains(e.text, resume_text)}

FileTypes == {"pdf", "docx", "txt"}

Urls == {"u1", "u2"}

\* rendered page texts a fetch may return
PageTexts ==
  { <<"H","i","r","i","n","g"," ","N","E","W">>,
    <<"j","o","b"," ","3","d"," ","a","g","o">>,
    <<"j","o","b"," ","8"," ","d","a","y","s"," ","a","g","o">>,
    <<"r","e","n","e","w","a","l">>,
    <<"a","b","o","u","t"," ","u","s">> }

FetchErrors == {"TimeoutException", "WebDriverException", "Exception"}

PostOutcomes == {"200", "500", "RequestException"}

\* the empty dict {}
EmptyMap == [k \in {} |-> <<>>]

NoFetch == [url |-> "none", outcome |-> "none", text |-> <<>>, appended |-> FALSE]

NoResponse == [status |-> "none", message |-> "none"]

NoUpload == [ext |-> "none", readable |-> FALSE, text |-> <<>>]

\* an upload: its declared extension, whether its bytes decode in that
\* format, and the text they decode to
Uploads ==
  {[ext |-> e, readable |-> TRUE, text |-> t] : e \in FileTypes, t \in ResumeTexts}
  \cup {[ext |-> e, readable |-> FALSE, text |-> <<>>] : e \in FileTypes}

(* ------------------------------- state --------------------------------- *)

VARIABLES
  pc,                  \* position inside recommend_jobs / scrape_jobs
  nlp,                 \* TRUE iff spacy.load succeeded at import
  upload,              \* the uploaded file, until it is read
  resume_text,         \* local of recommend_jobs, until scrape_jobs is entered
  keywords,            \* the list handed to scrape_jobs
  driver,              \* "none" | "open" | "closed"
  quits,               \* number of driver.quit() calls
  results_by_keyword,
  ki,                  \* index of the keyword of the current for iteration
  url,                 \* the URL the loop body is processing ("none" outside the body)
  last,                \* outcome of the loop body that ran last
  gets,                \* driver.get calls made by the running URL loop (0 outside it)
  fails,               \* how many of them raised
  yielded,             \* per keyword index: the URLs its search yielded
  passed,              \* per keyword index, per yielded URL: fetched and both filters true
  search_state,        \* per keyword index: "none" | "issued" | "exhausted" | "failed"
  fetched_jobs,        \* value returned by scrape_jobs
  steps,               \* pipeline stages entered by this request
  posts,               \* number of POSTs issued
  response,            \* what recommend_jobs returned
  sink,                \* what the downstream endpoint answered to the POST
  doc_ents,            \* doc.ents of extract_keywords_from_resume, until scrape_jobs is entered
  arg,                 \* argument of a direct call of is_recent_job_posting
  ret                  \* its return value: "none" | "True" | "False"

vars ==
  <<pc, nlp, upload, resume_text, keywords, driver, quits, results_by_keyword,
    ki, url, last, gets, fails, yielded, passed, search_state,
    fetched_jobs, steps, posts, response, sink, doc_ents, arg, ret>>

scrape_vars ==
  <<driver, quits, results_by_keyword, ki, url, last, gets, fails, yielded,
    passed, search_state, fetched_jobs>>

request_vars == <<nlp, upload, keywords, posts, response, sink, arg, ret>>

Init ==
  /\ pc = "read"
  /\ nlp \in BOOLEAN
  /\ upload \in Uploads
  /\ resume_text = <<>>
  /\ keywords = <<>>
  /\ driver = "none"
  /\ quits = 0
  /\ results_by_keyword = EmptyMap
  /\ ki = 0
  /\ url = "none"
  /\ last = NoFetch
  /\ gets = 0
  /\ fails = 0
  /\ yielded = <<>>
  /\ passed = <<>>
  /\ search_state = <<>>
  /\ fetched_jobs = EmptyMap
  /\ steps = {}
  /\ posts = 0
  /\ response = NoResponse
  /\ sink = "none"
  /\ doc_ents = {}
  /\ arg = <<>>
  /\ ret = "none"

(* --------------------------- recommend_jobs ---------------------------- *)

ErrorResponse(msg) == [status |-> "error", message |-> msg]

\* file_type == "pdf": PdfReader and extract_text inside try / bare except
DecodePdf ==
  /\ pc = "read"
  /\ upload.ext = "pdf"
  /\ IF upload.readable
     THEN /\ resume_text' = upload.text
          /\ pc' = "extract"
          /\ response' = response
     ELSE /\ response' = ErrorResponse("Failed to parse PDF content.")
          /\ pc' = "done"
          /\ resume_text' = resume_text
  /\ upload' = NoUpload
  /\ UNCHANGED <<nlp, keywords, posts, steps, sink, doc_ents, arg, ret>>
  /\ UNCHANGED scrape_vars

\* file_type == "docx": docx2txt.process(...).decode inside try / bare except
DecodeDocx ==
  /\ pc = "read"
  /\ upload.ext = "docx"
  /\ IF upload.readable
     THEN /\ resume_text' = upload.text
          /\ pc' = "extract"
          /\ response' = response
     ELSE /\ response' = ErrorResponse("Failed to parse DOCX content.")
          /\ pc' = "done"
          /\ resume_text' = resume_text
  /\ upload' = NoUpload
  /\ UNCHANGED <<nlp, keywords, posts, steps, sink, doc_ents, arg, ret>>
  /\ UNCHANGED scrape_vars

\* any other extension: file_content.decode("utf-8") outside any try; a
\* UnicodeDecodeError leaves recommend_jobs without a return value
DecodeText ==
  /\ pc = "read"
  /\ upload.ext \notin {"pdf", "docx"}
  /\ IF upload.readable
     THEN /\ resume_text' = upload.text
          /\ pc' = "extract"
     ELSE /\ pc' = "raised"
          /\ resume_text' = resume_text
  /\ upload' = NoUpload
  /\ UNCHANGED <<nlp, keywords, posts, steps, response, sink, doc_ents, arg, ret>>
  /\ UNCHANGED scrape_vars

\* extract_keywords_from_resume(resume_text)
ExtractKeywords ==
  /\ pc = "extract"
  /\ IF nlp
     THEN \E ents \in EntitiesOf(resume_text) :
            \E order \in Orderings(extracted_keywords(resume_text, ents)) :
              /\ keywords' = order
              /\ doc_ents' = ents
     ELSE /\ keywords' = fallback_keywords
          /\ doc_ents' = {}
  /\ steps' = steps \cup {"extract"}
  /\ pc' = "start_driver"
  /\ UNCHANGED <<nlp, upload, resume_text, posts, response, sink, arg, ret>>
  /\ UNCHANGED scrape_vars

\* a status that forgets to look at response.status_code
StatusOfAnyAnswer(outcome) ==
  IF outcome = "RequestException"
  THEN ErrorResponse("Connection error")
  ELSE [status |-> "success", message |-> "Job data sent to Go server."]

\* the status recommend_jobs builds from the outcome of the POST
StatusFor(outcome) ==
  IF outcome = "200"
  THEN [status |-> "success", message |-> "Job data sent to Go server."]
  ELSE IF outcome = "RequestException"
       THEN ErrorResponse("Connection error")
       ELSE ErrorResponse("Failed to send data to Go server.")

\* a second attempt after a delivery that did not succeed
RetriesAfterPost(outcome) ==
  pc' = IF outcome # "200" /\ posts = 0 THEN "publish" ELSE "done"

\* every branch after requests.post returns from recommend_jobs
AfterPost(outcome) ==
  pc' = "done"

\* requests.post(GO_SERVER_URL, json=fetched_jobs, timeout=30) and the
\* status built from its outcome
Publish(outcome) ==
  /\ pc = "publish"
  /\ posts' = posts + 1
  /\ sink' = outcome
  /\ steps' = steps \cup {"publish"}
  /\ response' = StatusFor(outcome)
  /\ AfterPost(outcome)
  /\ UNCHANGED <<nlp, upload, resume_text, keywords, doc_ents, arg, ret>>
  /\ UNCHANGED scrape_vars

(* ----------------------------- scrape_jobs ----------------------------- *)

PerKeyword(v) == [i \in 1..Len(keywords) |-> v]

\* webdriver.Chrome(options) succeeds
StartDriver ==
  /\ pc = "start_driver"
  /\ driver' = "open"
  /\ results_by_keyword' = EmptyMap
  /\ ki' = 1
  /\ yielded' = PerKeyword(<<>>)
  /\ passed' = PerKeyword(<<>>)
  /\ search_state' = PerKeyword("none")
  /\ steps' = steps \cup {"scrape"}
  /\ resume_text' = <<>>
  /\ doc_ents' = {}
  /\ pc' = "for_keyword"
  /\ UNCHANGED <<quits, url, last, gets, fails, fetched_jobs>>
  /\ UNCHANGED request_vars

\* webdriver.Chrome(options) raises: return {}
DriverFails ==
  /\ pc = "start_driver"
  /\ fetched_jobs' = EmptyMap
  /\ yielded' = PerKeyword(<<>>)
  /\ passed' = PerKeyword(<<>>)
  /\ search_state' = PerKeyword("none")
  /\ steps' = steps \cup {"scrape"}
  /\ resume_text' = <<>>
  /\ doc_ents' = {}
  /\ pc' = "publish"
  /\ UNCHANGED <<driver, quits, results_by_keyword, ki, url, last, gets, fails>>
  /\ UNCHANGED request_vars

\* an initialisation that empties the lists of all keywords
WithAllSlotsReset(results, keyword) ==
  [k \in (DOMAIN results) \cup {keyword} |-> <<>>]

\* results_by_keyword[keyword] = []
WithEmptySlot(results, keyword) ==
  [k \in (DOMAIN results) \cup {keyword} |-> IF k = keyword THEN <<>> ELSE results[k]]

\* head of "for keyword in keywords" with the slot initialisation
NextKeyword ==
  /\ pc = "for_keyword"
  /\ ki <= Len(keywords)
  /\ results_by_keyword' = WithEmptySlot(results_by_keyword, keywords[ki])
  /\ pc' = "search"
  /\ UNCHANGED <<driver, quits, ki, url, last, gets, fails, yielded, passed,
                 search_state, fetched_jobs, steps, resume_text, doc_ents>>
  /\ UNCHANGED request_vars

\* the search generator yields the next URL
SearchYields(u) ==
  /\ pc = "search"
  /\ Len(yielded[ki]) < MaxYield
  /\ Len(yielded[ki]) < num_results
  /\ url' = u
  /\ yielded' = [yielded EXCEPT ![ki] = Append(@, u)]
  /\ passed' = [passed EXCEPT ![ki] = Append(@, FALSE)]
  /\ search_state' = [search_state EXCEPT ![ki] = "issued"]
  /\ last' = NoFetch
  /\ pc' = "fetch"
  /\ UNCHANGED <<driver, quits, results_by_keyword, ki, gets, fails,
                 fetched_jobs, steps, resume_text, doc_ents>>
  /\ UNCHANGED request_vars

\* the search generator is exhausted: next iteration of the keyword loop
SearchExhausted ==
  /\ pc = "search"
  /\ search_state' = [search_state EXCEPT ![ki] = "exhausted"]
  /\ ki' = ki + 1
  /\ last' = NoFetch
  /\ gets' = 0
  /\ fails' = 0
  /\ pc' = "for_keyword"
  /\ UNCHANGED <<driver, quits, results_by_keyword, url, yielded, passed,
                 fetched_jobs, steps, resume_text, doc_ents>>
  /\ UNCHANGED request_vars

\* a break in place of the continue of the search handler
SearchHandlerBreaks ==
  /\ ki' = Len(keywords) + 1
  /\ pc' = "for_keyword"

\* except Exception around the search loop: print, continue
SearchHandler ==
  /\ ki' = ki + 1
  /\ pc' = "for_keyword"

\* the search generator raises, on its first or on a later advance
SearchFails ==
  /\ pc = "search"
  /\ search_state' = [search_state EXCEPT ![ki] = "failed"]
  /\ last' = NoFetch
  /\ gets' = 0
  /\ fails' = 0
  /\ SearchHandler
  /\ UNCHANGED <<driver, quits, results_by_keyword, url, yielded, passed,
                 fetched_jobs, steps, resume_text, doc_ents>>
  /\ UNCHANGED request_vars

\* an insert at the head of the list in place of the append
AfterPagePrepends(results, keyword, u, text) ==
  IF AcceptsPage(text)
  THEN [results EXCEPT ![keyword] = <<u>> \o @]
  ELSE results

\* an assignment of a one-element list in place of the append
AfterPageOverwrites(results, keyword, u, text) ==
  IF AcceptsPage(text)
  THEN [results EXCEPT ![keyword] = <<u>>]
  ELSE results

\* results_by_keyword[keyword].append(url) when the page is accepted
AfterPage(results, keyword, u, text) ==
  IF AcceptsPage(text)
  THEN [results EXCEPT ![keyword] = Append(@, u)]
  ELSE results

\* driver.get(url) and the parse succeed; raw is the page's visible text
FetchSucceeds(raw) ==
  /\ pc = "fetch"
  /\ LET text == Lower(raw) IN
       /\ results_by_keyword' = AfterPage(results_by_keyword, keywords[ki], url, text)
       /\ last' = [url |-> url, outcome |-> "success", text |-> text,
                   appended |-> AcceptsPage(text)]
       /\ passed' = [passed EXCEPT ![ki][Len(yielded[ki])] =
                       has_hiring_word(text) /\ is_recent_job_posting(text)]
  /\ gets' = gets + 1
  /\ url' = "none"
  /\ pc' = "search"
  /\ UNCHANGED <<driver, quits, ki, fails, yielded, search_state,
                 fetched_jobs, steps, resume_text, doc_ents>>
  /\ UNCHANGED request_vars

\* a break in place of the continue of the per-URL handlers
FetchHandlerBreaks(err) ==
  /\ ki' = ki + 1
  /\ pc' = "for_keyword"

\* except (TimeoutException, WebDriverException) / except Exception: continue
FetchHandler(err) ==
  /\ ki' = ki
  /\ pc' = "search"

\* driver.get(url) or the parse raises err
FetchFails(err) ==
  /\ pc = "fetch"
  /\ gets' = gets + 1
  /\ fails' = fails + 1
  /\ last' = [url |-> url, outcome |-> err, text |-> <<>>, appended |-> FALSE]
  /\ url' = "none"
  /\ FetchHandler(err)
  /\ UNCHANGED <<driver, quits, results_by_keyword, yielded, passed,
                 search_state, fetched_jobs, steps, resume_text, doc_ents>>
  /\ UNCHANGED request_vars

\* a return that forgets driver.quit()
ReturnsWithoutQuit ==
  /\ driver' = driver
  /\ quits' = quits

\* driver.quit()
DriverQuit ==
  /\ driver' = "closed"
  /\ quits' = quits + 1

\* the keyword loop is over: driver.quit(); return results_by_keyword
FinishScrape ==
  /\ pc = "for_keyword"
  /\ ki > Len(keywords)
  /\ DriverQuit
  /\ fetched_jobs' = results_by_keyword
  /\ pc' = "publish"
  /\ UNCHANGED <<results_by_keyword, ki, url, last, gets, fails, yielded, passed,
                 search_state, steps, resume_text, doc_ents>>
  /\ UNCHANGED request_vars

Next ==
  \/ DecodePdf
  \/ DecodeDocx
  \/ DecodeText
  \/ ExtractKeywords
  \/ StartDriver
  \/ DriverFails
  \/ NextKeyword
  \/ \E u \in Urls : SearchYields(u)
  \/ SearchExhausted
  \/ SearchFails
  \/ \E raw \in PageTexts : FetchSucceeds(raw)
  \/ \E err \in FetchErrors : FetchFails(err)
  \/ FinishScrape
  \/ \E outcome \in PostOutcomes : Publish(outcome)

Spec == Init /\ [][Next]_vars

(* ------------------- interruption of a running scrape ------------------ *)

\* KeyboardInterrupt or SystemExit raised inside the keyword loop: neither is
\* an Exception, so no handler of scrape_jobs or recommend_jobs catches it
\* and the statements after the loop do not run
Interrupted ==
  /\ pc \in {"for_keyword", "search", "fetch"}
  /\ driver = "open"
  /\ pc' = "interrupted"
  /\ UNCHANGED <<steps, resume_text, doc_ents>>
  /\ UNCHANGED scrape_vars
  /\ UNCHANGED request_vars

NextCancel ==
  \/ Next
  \/ Interrupted

SpecCancel == Init /\ [][NextCancel]_vars

(* ----------------------- direct calls of scrape_jobs ------------------- *)

\* keyword lists a caller may pass, the same keyword twice included
KeywordLists ==
  { <<>>,
    <<tech_skills[1]>>,
    <<tech_skills[1], tech_skills[3]>>,
    <<tech_skills[3], tech_skills[1]>>,
    <<tech_skills[1], tech_skills[1]>> }

InitScrape ==
  /\ pc = "start_driver"
  /\ keywords \in KeywordLists
  /\ nlp = TRUE
  /\ upload = NoUpload
  /\ resume_text = <<>>
  /\ driver = "none"
  /\ quits = 0
  /\ results_by_keyword = EmptyMap
  /\ ki = 0
  /\ url = "none"
  /\ last = NoFetch
  /\ gets = 0
  /\ fails = 0
  /\ yielded = <<>>
  /\ passed = <<>>
  /\ search_state = <<>>
  /\ fetched_jobs = EmptyMap
  /\ steps = {}
  /\ posts = 0
  /\ response = NoResponse
  /\ sink = "none"
  /\ doc_ents = {}
  /\ arg = <<>>
  /\ ret = "none"

\* the steps of scrape_jobs; at pc = "publish" it has returned to its caller
NextScrape ==
  \/ StartDriver
  \/ DriverFails
  \/ NextKeyword
  \/ \E u \in Urls : SearchYields(u)
  \/ SearchExhausted
  \/ SearchFails
  \/ \E raw \in PageTexts : FetchSucceeds(raw)
  \/ \E err \in FetchErrors : FetchFails(err)
  \/ FinishScrape

SpecScrape == InitScrape /\ [][NextScrape]_vars

(* ----------------- direct calls of is_recent_job_posting --------------- *)

DecimalChars == <<"0","1","2","3","4","5","6","7","8","9">>

RECURSIVE Decimal(_)
\* str(n) for a natural number n
Decimal(n) ==
  IF n < 10
  THEN <<DecimalChars[n + 1]>>
  ELSE Decimal(n \div 10) \o <<DecimalChars[(n % 10) + 1]>>

DayCounts == (1..10) \cup {12, 17, 24, 30}

Leads ==
  { <<>>,
    <<"J","u","s","t"," ","P","o","s","t","e","d"," ">>,
    <<"P","o","s","t","e","d"," ">>,
    <<"R","e","n","e","w","a","l"," ">>,
    <<"S","e","e","n"," ">> }

DaysAgo == <<" ","d","a","y","s"," ","a","g","o">>

Tails ==
  { DaysAgo,
    <<"d"," ","a","g","o",","," ","a","p","p","l","y"," ","n","o","w">>,
    <<" ","h","o","u","r","s"," ","a","g","o">>,
    <<" ","w","e","e","k","s"," ","a","g","o">> }

PostedLastMonth == <<"P","o","s","t","e","d"," ","l","a","s","t"," ","m","o","n","t","h">>

Renewal == <<"r","e","n","e","w","a","l">>

\* the page texts is_recent_job_posting is called with
RecencyInputs ==
  {l \o Decimal(n) \o t : l \in Leads, n \in DayCounts, t \in Tails}
  \cup {PostedLastMonth, Renewal}

InitRecency ==
  /\ pc = "call_is_recent"
  /\ arg \in RecencyInputs
  /\ ret = "none"
  /\ nlp = TRUE
  /\ upload = NoUpload
  /\ resume_text = <<>>
  /\ keywords = <<>>
  /\ driver = "none"
  /\ quits = 0
  /\ results_by_keyword = EmptyMap
  /\ ki = 0
  /\ url = "none"
  /\ last = NoFetch
  /\ gets = 0
  /\ fails = 0
  /\ yielded = <<>>
  /\ passed = <<>>
  /\ search_state = <<>>
  /\ fetched_jobs = EmptyMap
  /\ steps = {}
  /\ posts = 0
  /\ response = NoResponse
  /\ sink = "none"
  /\ doc_ents = {}

\* ret = is_recent_job_posting(arg)
ClassifyRecency ==
  /\ pc = "call_is_recent"
  /\ ret' = IF is_recent_job_posting(arg) THEN "True" ELSE "False"
  /\ pc' = "classified"
  /\ UNCHANGED <<nlp, upload, resume_text, keywords, posts, response, sink,
                 doc_ents, arg, steps>>
  /\ UNCHANGED scrape_vars

NextRecency == ClassifyRecency

SpecRecency == InitRecency /\ [][NextRecency]_vars

(* ------------------------------ properties ----------------------------- *)

\* scrape_jobs has been called and has returned fetched_jobs
ScrapeReturned == "scrape" \in steps /\ pc \in {"publish", "done"}

\* the browser was acquired by this run
Acquired == driver # "none"

\* recommend_jobs is over, by a return or by an exception
Terminated == pc \in {"done", "raised"}

NoDuplicates(s) == \A i, j \in 1..Len(s) : s[i] = s[j] => i = j

\* C1 (as claimed): whenever scrape_jobs has returned, whatever happened at
\* browser start-up, the keys of the returned map are exactly the keywords
\* passed in.
C1_KeysAreKeywords ==
  ScrapeReturned => DOMAIN fetched_jobs = Range(keywords)

C3_SearchFailureDoesNotAbort ==
  /\ [](pc = "raised" => "scrape" \notin steps)
  /\ [](ScrapeReturned =>
          \A j \in 1..Len(keywords) :
            search_state[j] = "failed" =>
              \A i \in 1..Len(keywords) :
                /\ keywords[i] \in DOMAIN fetched_jobs
                /\ search_state[i] \in {"exhausted", "failed"})
  /\ [][(pc = "search" /\ pc' # "search" /\ search_state'[ki] = "failed")
          => (pc' = "for_keyword" /\ ki' = ki + 1 /\ ki' <= Len(keywords) + 1)]_vars

\* C3 witness: the first keyword's search raised and the second keyword was
\* still searched and got a URL accepted
C3_Witness ==
  /\ ScrapeReturned
  /\ Len(keywords) = 2
  /\ search_state[1] = "failed"
  /\ search_state[2] = "exhausted"
  /\ Len(fetched_jobs[keywords[2]]) > 0

\* C4 (as claimed): in every returned map, a keyword whose search raised,
\* before its first URL or while its URLs were being consumed, has the empty
\* list.
C4_FailedSearchLeavesEmpty ==
  (ScrapeReturned /\ Acquired) =>
    \A i \in 1..Len(keywords) :
      search_state[i] = "failed" => fetched_jobs[keywords[i]] = <<>>

\* C5: every URL a search yields is fetched exactly once, whether or not an
\* earlier fetch of that keyword failed; a failing fetch appends nothing,
\* is not repeated and hands control back to the same keyword's search for
\* the next URL; the list of the keyword never has more entries than there
\* were successful fetches.
C5_PerUrlIsolation ==
  /\ [](pc = "search" => /\ gets = Len(yielded[ki])
                         /\ Len(results_by_keyword[keywords[ki]]) <= gets - fails)
  /\ [](pc = "fetch" => gets = Len(yielded[ki]) - 1)
  /\ [](last.outcome \in FetchErrors => ~last.appended /\ pc = "search")
  /\ [][(pc = "fetch" /\ last'.outcome \in FetchErrors)
          => /\ results_by_keyword' = results_by_keyword
             /\ gets' = gets + 1
             /\ pc' = "search"
             /\ ki' = ki
             /\ yielded' = yielded]_vars

\* C5 witness: after a failed fetch of the same keyword, a later URL was
\* fetched, evaluated and accepted
C5_Witness ==
  /\ pc = "search"
  /\ fails > 0
  /\ gets = 2
  /\ last.outcome = "success"
  /\ last.appended
  /\ results_by_keyword[keywords[ki]] = <<last.url>>

\* C6: a fetched page leads to an append exactly when the fetch succeeded and
\* its text has a hiring word and is classified recent; so in the map of a run
\* that acquired the browser, u is in the list of a keyword exactly when that
\* keyword's search yielded u at a position whose fetch succeeded with such a
\* text, whatever the lists of the other keywords hold.
C6_AcceptanceRule ==
  /\ [](last.appended <=>
          /\ last.outcome = "success"
          /\ has_hiring_word(last.text)
          /\ is_recent_job_posting(last.text))
  /\ [][pc = "fetch" =>
          IF last'.appended
          THEN results_by_keyword' =
                 [results_by_keyword EXCEPT ![keywords[ki]] = Append(@, url)]
          ELSE results_by_keyword' = results_by_keyword]_vars
  /\ []((ScrapeReturned /\ Acquired) =>
          \A i \in 1..Len(keywords) : \A u \in Urls :
            u \in Range(fetched_jobs[keywords[i]]) <=>
              \E j \in 1..Len(yielded[i]) : yielded[i][j] = u /\ passed[i][j])

\* C6 witness: the same URL was accepted under both keywords of one run, and
\* another yielded URL was fetched but not accepted
C6_Witness ==
  /\ ScrapeReturned
  /\ Acquired
  /\ Len(keywords) = 2
  /\ fetched_jobs[keywords[1]] = <<"u1">>
  /\ fetched_jobs[keywords[2]] = <<"u1">>
  /\ yielded[2] = <<"u2", "u1">>

\* C7 (as claimed): in every returned map no list holds a URL twice, whatever
\* sequence of URLs the search yielded.
C7_NoIntraKeywordDuplicates ==
  ScrapeReturned => \A k \in DOMAIN fetched_jobs : NoDuplicates(fetched_jobs[k])

\* C8 (as claimed): extract_keywords_from_resume returns a non-empty list for
\* every text, with and without the language model.
C8_KeywordsNeverEmpty ==
  "extract" \in steps => Len(keywords) > 0

\* C9 (as claimed): every invocation of recommend_jobs that is over has
\* returned a success or an error status.
C9_AlwaysOneStatus ==
  Terminated => response.status \in {"success", "error"}

\* C10 (as claimed): reading an upload whose bytes do not decode ends the
\* request at once with an error status and with no pipeline stage entered.
C10_DecodeFailureIsTerminal ==
  [][(pc = "read" /\ ~upload.readable)
       => (pc' = "done" /\ response'.status = "error" /\ steps' = {})]_vars

\* C11: a request whose document decoded never ends before the POST was
\* attempted, and its status is success exactly when the endpoint answered
\* 200 and error for another answer or a connection failure, whatever
\* happened in extraction, at browser start-up, in the searches and fetches.
C11_StatusFollowsPublishOnly ==
  /\ pc = "raised" => steps = {}
  /\ (Terminated /\ "extract" \in steps) =>
       /\ pc = "done"
       /\ "publish" \in steps
       /\ posts = 1
       /\ response.status = "success" <=> sink = "200"
       /\ sink \in {"500", "RequestException"} <=> response.status = "error"

\* C11 witness: degraded extraction and a browser that failed to start, and
\* the request still ended with success on a 200 answer
C11_Witness ==
  /\ pc = "done"
  /\ ~nlp
  /\ keywords = fallback_keywords
  /\ driver = "none"
  /\ "scrape" \in steps
  /\ sink = "200"
  /\ response.status = "success"

\* C12: no request issues more than one POST; the step that issues it ends
\* the request, so nothing is posted after a non-200 answer or a connection
\* failure.
C12_SinglePost ==
  /\ [](posts \in {0, 1})
  /\ [](sink \in {"500", "RequestException"} => pc = "done" /\ posts = 1)
  /\ [][posts' # posts => (posts = 0 /\ posts' = 1 /\ pc' = "done")]_vars

\* C12 witness: the only POST was answered with a connection failure and the
\* request is over
C12_Witness ==
  /\ pc = "done"
  /\ posts = 1
  /\ sink = "RequestException"
  /\ response.status = "error"

\* leading words that carry no recency phrase
NeutralLeads == {<<>>, <<"P","o","s","t","e","d"," ">>, <<"S","e","e","n"," ">>}

\* texts whose only recency indication is "N days ago" with N outside 1..7
OutsideWindowTexts ==
  {l \o Decimal(n) \o DaysAgo : l \in NeutralLeads, n \in DayCounts \ (1..7)}

\* C13 (as claimed): a text whose only recency indication is "N days ago"
\* with N outside 1..7 is classified not recent; "Just Posted 2 days ago" and
\* "3d ago, apply now" are recent and "Posted last month" is not.
C13_OnlyOneToSevenDays ==
  pc = "classified" =>
    /\ arg \in OutsideWindowTexts => ret = "False"
    /\ arg = <<"J","u","s","t"," ","P","o","s","t","e","d"," ","2"," ","d","a","y","s"," ","a","g","o">>
         => ret = "True"
    /\ arg = <<"3","d"," ","a","g","o",","," ","a","p","p","l","y"," ","n","o","w">>
         => ret = "True"
    /\ arg = PostedLastMonth => ret = "False"

\* p occurs in s, position by position
Occurs(p, s) ==
  \E i \in 1..Len(s) :
    /\ i + Len(p) - 1 <= Len(s)
    /\ \A j \in 1..Len(p) : s[i + j - 1] = p[j]

RecencyPhrases ==
  { <<"j","u","s","t"," ","p","o","s","t","e","d">>,
    <<"n","e","w">>,
    <<"2","4"," ","h","o","u","r","s">>,
    <<"1"," ","d","a","y">>, <<"2"," ","d","a","y">>, <<"3"," ","d","a","y">>,
    <<"4"," ","d","a","y">>, <<"5"," ","d","a","y">>, <<"6"," ","d","a","y">>,
    <<"7"," ","d","a","y">>,
    <<"1","d">>, <<"2","d">>, <<"3","d">>, <<"4","d">>, <<"5","d">>,
    <<"6","d">>, <<"7","d">> }

\* C15: is_recent_job_posting returns True exactly for the texts whose
\* lower-cased form contains "just posted", "new", "24 hours", "<n> day" or
\* "<n>d" for some n in 1..7; "renewal" is therefore recent.
C15_RecentIffPhraseOccurs ==
  pc = "classified" =>
    /\ ret \in {"True", "False"}
    /\ ret = "True" <=> \E p \in RecencyPhrases : Occurs(p, Lower(arg))

\* C15 witness: "renewal" has been classified recent
C15_Witness ==
  /\ pc = "classified"
  /\ arg = Renewal
  /\ ret = "True"

\* kw has a blank that is neither its first nor its last character
HasInternalBlank(kw) == \E i \in 2..(Len(kw) - 1) : kw[i] = " "

\* C14: with the entity model loaded, the returned list has no duplicates and
\* holds exactly the retained entities and the skills whose lower-cased name
\* occurs in the lower-cased text, minus the terms of length <= 3 without an
\* internal blank; so every keyword is longer than 3 or contains a blank.
C14_ExtractionRule ==
  (pc = "start_driver" /\ nlp) =>
    LET lowered  == Lower(resume_text)
        included == {tech_skills[i] : i \in {j \in 1..Len(tech_skills) :
                                              Occurs(Lower(tech_skills[j]), lowered)}}
        retained == {e.text : e \in {x \in doc_ents :
                                      x.label \in {"ORG", "GPE", "PRODUCT", "JOB"}}}
    IN /\ NoDuplicates(keywords)
       /\ Range(keywords) =
            {kw \in retained \cup included : ~(Len(kw) <= 3 /\ ~HasInternalBlank(kw))}
       /\ \A kw \in Range(keywords) : Len(kw) > 3 \/ \E i \in 1..Len(kw) : kw[i] = " "

\* C14 witness: from "N Y sql" with the entity "N Y" reported, the skill SQL
\* was found and dropped and the three-character entity with a blank was kept
C14_Witness ==
  /\ pc = "start_driver"
  /\ nlp
  /\ resume_text = <<"N"," ","Y"," ","s","q","l">>
  /\ doc_ents = {[label |-> "GPE", text |-> <<"N"," ","Y">>]}
  /\ keywords = << <<"N"," ","Y">> >>

\* C16: while a keyword is being searched or one of its URLs fetched, its
\* slot exists, every earlier keyword is finished and no later keyword has a
\* slot, a search or a yielded URL; the slot is created empty, before the
\* search of its keyword is issued and before any fetch for it; and a step
\* taken for one keyword leaves the lists of the other keywords alone.
C16_OneKeywordAtATime ==
  /\ [](pc \in {"search", "fetch"} =>
          /\ ki \in 1..Len(keywords)
          /\ keywords[ki] \in DOMAIN results_by_keyword
          /\ \A j \in 1..Len(keywords) :
               /\ j < ki => search_state[j] \in {"exhausted", "failed"}
               /\ j > ki => /\ search_state[j] = "none"
                            /\ yielded[j] = <<>>
                            /\ keywords[j] \notin DOMAIN results_by_keyword)
  /\ [](pc = "fetch" => /\ url = yielded[ki][Len(yielded[ki])]
                        /\ search_state[ki] = "issued")
  /\ [][(pc = "for_keyword" /\ pc' = "search") =>
          /\ results_by_keyword'[keywords[ki]] = <<>>
          /\ search_state[ki] = "none" /\ search_state' = search_state
          /\ yielded[ki] = <<>> /\ yielded' = yielded
          /\ \A k \in DOMAIN results_by_keyword :
               k # keywords[ki] => results_by_keyword'[k] = results_by_keyword[k]]_vars
  /\ [][(pc = "search" /\ search_state[ki] = "none") =>
          results_by_keyword[keywords[ki]] = <<>>]_vars
  /\ [][(pc \in {"search", "fetch"}) =>
          (\A k \in DOMAIN results_by_keyword :
             k # keywords[ki] => results_by_keyword'[k] = results_by_keyword[k])]_vars

\* C16 witness: a URL of the second keyword is being fetched into its still
\* empty slot after the first keyword was searched to the end and got a URL
C16_Witness ==
  /\ pc = "fetch"
  /\ ki = 2
  /\ search_state[1] = "exhausted"
  /\ Len(results_by_keyword[keywords[1]]) > 0
  /\ results_by_keyword[keywords[2]] = <<>>
  /\ Len(yielded[2]) = 1

RECURSIVE IsSubsequence(_, _)
\* s can be obtained from t by deleting elements
IsSubsequence(s, t) ==
  IF s = <<>> THEN TRUE
  ELSE IF t = <<>> THEN FALSE
  ELSE IF Head(s) = Head(t) THEN IsSubsequence(Tail(s), Tail(t))
  ELSE IsSubsequence(s, Tail(t))

RECURSIVE PassedOf(_, _)
\* the elements of urls at the positions where flags is TRUE, in order
PassedOf(urls, flags) ==
  IF urls = <<>> THEN <<>>
  ELSE (IF Head(flags) THEN <<Head(urls)>> ELSE <<>>) \o PassedOf(Tail(urls), Tail(flags))

\* C17: in the map of a run that acquired the browser, the list of every
\* keyword is a subsequence of the URLs its search yielded: the yielded URLs
\* that passed, in the order in which they were yielded.
C17_DiscoveryOrder ==
  (ScrapeReturned /\ Acquired) =>
    \A i \in 1..Len(keywords) :
      /\ IsSubsequence(fetched_jobs[keywords[i]], yielded[i])
      /\ fetched_jobs[keywords[i]] = PassedOf(yielded[i], passed[i])

\* C17 witness: the search yielded u2 then u1, both were accepted, and the
\* returned list holds them in that order
C17_Witness ==
  /\ ScrapeReturned
  /\ Acquired
  /\ Len(keywords) > 0
  /\ yielded[1] = <<"u2", "u1">>
  /\ fetched_jobs[keywords[1]] = <<"u2", "u1">>

\* C18 (as claimed): a run interrupted after the browser was acquired has
\* released the browser once and still hands over every slot it had
\* initialised.
C18_CancellationReleases ==
  pc = "interrupted" =>
    /\ driver = "closed"
    /\ quits = 1
    /\ DOMAIN results_by_keyword \subseteq DOMAIN fetched_jobs

\* every URL of every list is still in that list after the step
ListsKeepTheirUrls ==
  \A k \in DOMAIN results_by_keyword :
    /\ k \in DOMAIN results_by_keyword'
    /\ \A u \in Range(results_by_keyword[k]) : u \in Range(results_by_keyword'[k])

\* C19 (as claimed): for every keyword list, repeated keywords included, no
\* step of scrape_jobs removes a URL from a list, and the returned map is the
\* map built by the loop.
C19_ResultsOnlyGrow ==
  /\ [][ListsKeepTheirUrls]_vars
  /\ []((ScrapeReturned /\ Acquired) => fetched_jobs = results_by_keyword)

\* C19 (amended): for every keyword list without a repeated keyword, no step
\* of scrape_jobs removes a URL from a list, each list only grows at its
\* end, and the returned map is the map built by the loop.
C19_ResultsOnlyGrowWithoutRepeats ==
  /\ [][NoDuplicates(keywords) =>
          /\ ListsKeepTheirUrls
          /\ \A k \in DOMAIN results_by_keyword :
               /\ Len(results_by_keyword'[k]) >= Len(results_by_keyword[k])
               /\ SubSeq(results_by_keyword'[k], 1, Len(results_by_keyword[k]))
                    = results_by_keyword[k]]_vars
  /\ []((ScrapeReturned /\ Acquired) => fetched_jobs = results_by_keyword)

\* C19 witness: two different keywords; the two URLs appended for the first
\* are still in its list when the run has returned with a URL for the second
C19_Witness ==
  /\ ScrapeReturned
  /\ Acquired
  /\ Len(keywords) = 2
  /\ keywords[1] # keywords[2]
  /\ fetched_jobs[keywords[1]] = <<"u1", "u2">>
  /\ Len(fetched_jobs[keywords[2]]) > 0

====
